---- MODULE Spec2Model ----
(***************************************************************************)
(* browsebox-indexer: the image routes (upload, update, delete, retrieve)  *)
(* of src/src/api/routes over the relational tables of                     *)
(* src/prisma/database/image.sql and the S3 bucket of src/src/S3.ts.       *)
(* Every await of a handler is one step; requests run concurrently in     *)
(* slots, and every store call may fail.                                   *)
(***************************************************************************)
EXTENDS Naturals, Integers, Sequences, FiniteSets, TLC

\* ------------------------------------------------------------------ bounds
MaxSlots == 2
MaxIssued == 3
MaxFaults == 1
MaxUser == 1
MaxListing == 1
MaxIndex == 2
MaxContent == 2

MaxStride == 3
MaxOffset == 5

\* ------------------------------------------------------- program constants
HashLen == 64

Slots == 1..MaxSlots
UserIds == 1..MaxUser
ListingIds == 1..MaxListing
Indexes == 1..MaxIndex
Contents == 1..MaxContent
\* byte strings no two of which are equal, one for each request
FreshContents == 1..MaxIssued
Kinds == {"profile", "listing"}
Ops == {"upload", "update", "delete", "retrieve"}

NoFile == 0
NoIndex == 0
Undefined == 0

\* ------------------------------------------------------------ pure helpers
Hex == <<"0","1","2","3","4","5","6","7","8","9","a","b","c","d","e","f">>

\* a digest that is the same for every byte string
Sha256Constant(bytes) == [i \in 1..HashLen |-> "0"]

\* crypto.createHash('sha256').update(buffer).digest('hex'): HashLen lowercase
\* hex characters, a fixed function of the bytes, distinct for the byte strings
\* of the model.
Sha256(bytes) == [i \in 1..HashLen |-> Hex[((bytes * i + 7 * i * i) % 16) + 1]]

\* sharp(file.buffer).toBuffer(): the image re-encoded, another byte string.
Sharp(bytes) == bytes + MaxContent

Png == <<"i","m","a","g","e","/","p","n","g">>
MimeTypes == {Png}

\* other values of file.mimetype / of the mimetype argument
Jpeg == <<"i","m","a","g","e","/","j","p","e","g">>
SvgXml == <<"i","m","a","g","e","/","s","v","g","+","x","m","l">>
ImageSlash == <<"i","m","a","g","e","/">>
ImageBare == <<"i","m","a","g","e">>
TextPlain == <<"t","e","x","t","/","p","l","a","i","n">>

\* String.prototype.startsWith
StartsWith(s, prefix) ==
    Len(s) >= Len(prefix) /\ SubSeq(s, 1, Len(prefix)) = prefix

RECURSIVE SplitFrom(_, _, _)
\* the pieces of s[i..] between separators sep, as String.prototype.split
SplitFrom(s, sep, i) ==
    IF i > Len(s) THEN << <<>> >>
    ELSE IF s[i] = sep THEN << <<>> >> \o SplitFrom(s, sep, i + 1)
    ELSE LET rest == SplitFrom(s, sep, i + 1)
         IN  << <<s[i]>> \o rest[1] >> \o Tail(rest)

Split(s, sep) == SplitFrom(s, sep, 1)

\* a template literal prints a missing array element as "undefined"
UndefinedText == <<"u","n","d","e","f","i","n","e","d">>
AssetsImg == <<"a","s","s","e","t","s","/","i","m","g","/">>
ProfileFolder == <<"p","r","o","f","i","l","e">>
ListingFolder == <<"l","i","s","t","i","n","g">>

\* a substring that takes the end index as inclusive
SubstringInclusive(s, a, b) == SubSeq(s, a + 1, b + 1)

\* String.prototype.substring(a, b): the characters at indexes a .. b - 1
Substring(s, a, b) == SubSeq(s, a + 1, IF b > Len(s) THEN Len(s) ELSE b)

\* a derivation that files every key under the profile folder
generateImageKeyOneFolder(type, imageHash, mimetype) ==
    LET parts == Split(mimetype, "/")
        extension == IF Len(parts) >= 2 THEN parts[2] ELSE UndefinedText
    IN  AssetsImg \o ProfileFolder \o <<"/">> \o Substring(imageHash, 0, 1) \o <<"/">>
          \o Substring(imageHash, 0, 2) \o <<"/">> \o imageHash \o <<".">> \o extension

\* KeyGeneration.ts: generateImageKey(type, imageHash, mimetype)
generateImageKey(type, imageHash, mimetype) ==
    LET parts == Split(mimetype, "/")
        extension == IF Len(parts) >= 2 THEN parts[2] ELSE UndefinedText
        folder == IF type = "profile" THEN ProfileFolder ELSE ListingFolder
    IN  AssetsImg \o folder \o <<"/">> \o Substring(imageHash, 0, 1) \o <<"/">>
          \o Substring(imageHash, 0, 2) \o <<"/">> \o imageHash \o <<".">> \o extension

\* "https://" + process.env.S3_BUCKET + ".s3.us-west-2.amazonaws.com/" + key
ImageUrl(key) == <<"https://", "S3_BUCKET", ".s3.us-west-2.amazonaws.com/">> \o key


\* ------------------------------------------------------- request validation
Truthy(v) == v # Undefined

\* The value a route passes as requestType: the retrieve routes pass
\* RequestType.PROFILE / RequestType.LISTING, the delete routes the string
\* 'delete', the upload and update routes RequestType.UPLOAD_PROFILE and the
\* like, members the enum does not have.
RequestTypeArg(op, kind) ==
    CASE op = "retrieve" -> kind
      [] op = "delete" -> "delete"
      [] OTHER -> "undefined"

requestValidation(requestType, body) ==
    CASE requestType = "profile" -> Truthy(body.id)
      [] requestType = "listing" -> Truthy(body.id) /\ Truthy(body.index)
      [] OTHER -> TRUE

\* ------------------------------------------------------------ record store
ProfileRow(userId, image) == [userId |-> userId, image |-> image]
ListingRow(listingId, index, image) ==
    [listingId |-> listingId, index |-> index, image |-> image]

\* a schema without the primary keys
PrimaryKeyFreeNoKey(rows, kind, id) == TRUE

\* PRIMARY KEY (`userId`) / PRIMARY KEY (`listingId`): an insert of a row whose
\* key column is already present is rejected.
PrimaryKeyFree(rows, kind, id) ==
    IF kind = "profile" THEN \A p \in rows : p.userId # id
    ELSE \A l \in rows : l.listingId # id

\* a lookup that finds a listing by listingId whatever the index asked for
LookupAnyIndex(rows, op, kind, id, index) ==
    IF kind = "profile" THEN {p \in rows : p.userId = id}
    ELSE {l \in rows : l.listingId = id}

\* the rows a handler's lookup selects: findUnique by userId (profile),
\* findUnique by listingId alone (upload/listing), findFirst by listingId and
\* index (delete and retrieve of a listing)
Lookup(rows, op, kind, id, index) ==
    IF kind = "profile" THEN {p \in rows : p.userId = id}
    ELSE IF op = "upload" THEN {l \in rows : l.listingId = id}
    ELSE {l \in rows : l.listingId = id /\ l.index = index}

\* the rows prisma.<kind>.update({ where }) addresses
UpdateTarget(rows, kind, id) ==
    IF kind = "profile" THEN {p \in rows : p.userId = id}
    ELSE {l \in rows : l.listingId = id}

\* a deleteMany whose filter compares the index the wrong way
DeleteTargetOtherIndex(rows, kind, id, index) ==
    IF kind = "profile" THEN {p \in rows : p.userId = id}
    ELSE {l \in rows : l.listingId = id /\ l.index # index}

\* the rows prisma.profile.delete / prisma.listing.deleteMany address
DeleteTarget(rows, kind, id, index) ==
    IF kind = "profile" THEN {p \in rows : p.userId = id}
    ELSE {l \in rows : l.listingId = id /\ l.index = index}

NewRow(kind, id, index, key) ==
    IF kind = "profile" THEN ProfileRow(id, key) ELSE ListingRow(id, index, key)

\* -------------------------------------------------------------- blob store
Blob(key, body, type) == [key |-> key, body |-> body, type |-> type]
PutObject(objects, key, body, type) ==
    {o \in objects : o.key # key} \cup {Blob(key, body, type)}
DeleteObject(objects, key) == {o \in objects : o.key # key}
BlobAt(objects, key) == \E o \in objects : o.key = key

\* -------------------------------------------------------------------- state
VARIABLES
    profile,   \* rows of table images.profile
    listing,   \* rows of table images.listing
    bucket,    \* objects of the S3 bucket
    req,       \* per slot: the request a handler is serving and its locals
    last,      \* per identity: "created" / "deleted" after an upload / delete
               \* that ran by itself was answered 200, until a delete /
               \* upload of the kind is issued
    issued,    \* requests received so far
    faults,    \* store calls failed so far by an outage
    derivation, \* a call of generateImageKey by itself: its arguments and
                \* what it returned
    dispatch    \* a request on its way through the middleware of app, and the
                \* rate limiter's count of the requests of the window

vars == <<profile, listing, bucket, req, last, issued, faults, derivation,
          dispatch>>

Identities ==
    {<<"profile", u, NoIndex>> : u \in UserIds}
        \cup {<<"listing", l, i>> : l \in ListingIds, i \in Indexes}

NoResp == [status |-> 0, message |-> "", imageUrl |-> <<>>]
NotFetched == [tag |-> "none", image |-> <<>>]

Idle ==
    [pc |-> "idle", op |-> "", kind |-> "", id |-> 0, index |-> 0,
     body |-> [id |-> 0, index |-> 0], file |-> NoFile, mime |-> <<>>,
     key |-> <<>>, fileBuffer |-> 0, found |-> NotFetched,
     resp |-> NoResp, sends |-> 0, crashed |-> FALSE,
     calls |-> <<>>, alone |-> FALSE, after |-> FALSE, had |-> FALSE,
     old |-> <<>>]

Ident(q) == <<q.kind, q.id, q.index>>
Active(q) == q.pc \notin {"idle", "done"}
Sent(q) == q.resp.status # 0

Table(kind) == IF kind = "profile" THEN profile ELSE listing

\* no call of generateImageKey by itself is under way
NoDerivation ==
    [state |-> "none", type |-> "", imageHash |-> <<>>, mimetype |-> <<>>,
     key |-> <<>>, previous |-> <<>>, before |-> <<>>]

\* no request is on its way through the middleware
NoDispatch ==
    [server |-> "", hits |-> 0, route |-> "", at |-> 0, passed |-> FALSE,
     result |-> ""]

\* ---------------------------------------------------------------- responses
\* res.status(st).json(body): the first call of a request sends the response;
\* a later call raises ERR_HTTP_HEADERS_SENT and sends nothing.
Json(q, st, msg, url) ==
    [q EXCEPT !.resp = IF Sent(q) THEN @
                       ELSE [status |-> st, message |-> msg, imageUrl |-> url],
              !.sends = @ + 1]

\* a handler that, on an Error thrown by a step, makes the step again
CaughtRetries(q) == q

\* the handler's catch block on an Error thrown in the try block: it answers
\* 500; when a response was already sent that call throws out of the handler
Caught(q) ==
    [Json(q, 500, "Internal server error", <<>>)
        EXCEPT !.pc = "done", !.crashed = Sent(q)]

\* a res.status().json() inside the try block, or inside a .catch callback
\* whose rejection the try block awaits, then control goes on at pc next
SendThen(q, st, msg, url, next) ==
    IF Sent(q) THEN Caught(Json(q, st, msg, url))
    ELSE [Json(q, st, msg, url) EXCEPT !.pc = next]

\* the store calls a request has made: which call, how it ended ("ok",
\* "outage", "duplicate", "absent", "invalid", "error", "other") and on which
\* key
Called(q, call, result, key) ==
    [q EXCEPT !.calls = Append(@, [call |-> call, result |-> result, key |-> key])]

\* ----------------------------------------------------------------- messages
MsgExists(kind) ==
    IF kind = "profile" THEN "Profile already exists." ELSE "Listing already exists."
MsgCheckError(q) ==
    CASE q.op = "upload" ->
            IF q.kind = "profile" THEN "Database error while checking profile."
            ELSE "Database error while checking listing."
      [] q.op = "update" -> "Database error while fetching old image key."
      [] OTHER ->
            IF q.kind = "profile" THEN "Database error while fetching profile."
            ELSE "Database error while fetching listing."
MsgAbsent(q) ==
    CASE q.op = "update" -> "Failed to fetch old key from database."
      [] q.op = "delete" ->
            IF q.kind = "profile" THEN "Failed to delete profile from database."
            ELSE "Failed to delete listing from database."
      [] OTHER ->
            IF q.kind = "profile" THEN "Failed to retrieve profile from database."
            ELSE "Failed to retrieve listing from database."
MsgUpdateError(kind) ==
    IF kind = "profile" THEN "Database error while updating image key."
    ELSE "Database error while updating listing."
MsgDeleteError(kind) ==
    IF kind = "profile" THEN "Database error while deleting profile."
    ELSE "Database error while deleting listing."
MsgDeleted(kind) ==
    IF kind = "profile" THEN "Profile image deleted." ELSE "Listing image deleted."

\* ----------------------------------------------------------------- handlers
Init ==
    /\ profile = {}
    /\ listing = {}
    /\ bucket = {}
    /\ req = [s \in Slots |-> Idle]
    /\ last = [x \in Identities |-> "none"]
    /\ issued = 0
    /\ faults = 0
    /\ dispatch = NoDispatch
    /\ derivation = NoDerivation

\* sharp decodes the images of the model; any other bytes make it throw
Decodable(bytes) == bytes \in Contents \cup FreshContents
Corrupt == 2 * MaxContent + 1

NewRequest(op, kind, id, index, body, file, mime) ==
    [Idle EXCEPT !.pc = "start", !.op = op, !.kind = kind, !.id = id,
                 !.index = index, !.body = body, !.file = file, !.mime = mime]

\* a handler that derives the key from the identity too
DeriveKeyWithId(q) ==
    generateImageKey(q.kind, Sha256(q.file), q.mime) \o <<"-", q.id, q.index>>

\* imageHash = sha256 of file.buffer, hex; key = generateImageKey("profile" /
\* "listing", imageHash, file.mimetype)
DeriveKey(q) == generateImageKey(q.kind, Sha256(q.file), q.mime)

\* the handler from its entry to its first await of a store call
Entry(q) ==
    LET valid == requestValidation(RequestTypeArg(q.op, q.kind), q.body)
        invalid == SendThen(q, 400, "Missing or invalid required parameters.", <<>>, "done")
        nofile == SendThen(q, 400, "Missing image file.", <<>>, "done")
        keyed == [q EXCEPT
                    !.key = DeriveKey(q),
                    !.fileBuffer = Sharp(q.file)]
        hashed == IF ~Decodable(q.file) THEN Caught(q)
                  ELSE [keyed EXCEPT !.pc =
                          IF q.op = "update" /\ q.kind = "listing" THEN "update"
                          ELSE "find"]
    IN  CASE q.op = "upload" ->
                IF q.file = NoFile THEN nofile
                ELSE IF ~valid THEN invalid ELSE hashed
          [] q.op = "update" ->
                IF ~valid THEN invalid
                ELSE IF q.file = NoFile THEN nofile ELSE hashed
          [] OTHER ->
                IF ~valid THEN invalid ELSE [q EXCEPT !.pc = "find"]

\* the media types a client may declare for the file it attaches
FileTypes == MimeTypes \cup {TextPlain}

\* a filter that lets every media type through
FileFilterAll(mimetype) == TRUE

\* multer's fileFilter: cb(null, true) when file.mimetype.startsWith('image/'),
\* cb(new Error('Invalid file type'), false) otherwise
FileFilter(mimetype) == StartsWith(mimetype, ImageSlash)

\* upload.single('image') ahead of the handler: a file the filter turns down
\* ends the request in Express's error handling (status 500) and the handler
\* never runs, req.file is never set; any other request enters the handler
Admit(q) ==
    IF q.file # NoFile /\ ~FileFilter(q.mime)
    THEN [Json([q EXCEPT !.file = NoFile], 500, "Invalid file type", <<>>)
            EXCEPT !.pc = "done"]
    ELSE Entry(q)

\* what the arrival of request q means for the request in another slot
Overlapped(o, q) ==
    IF o.pc = "idle" THEN o
    ELSE [o EXCEPT !.alone = FALSE,
                   !.after = IF q.op = "delete" /\ o.op = "upload" /\ o.kind = q.kind
                             THEN FALSE ELSE @]

\* slot r is the one that takes the next request: the idle slot of lowest
\* number (which idle slot serves a request makes no difference to it)
FirstIdle(r) ==
    /\ req[r].pc = "idle"
    /\ \A s \in Slots : s < r => req[s].pc # "idle"

\* a request arrives in slot r: the route (op, kind), id and index as the
\* client gives them, whether the body carries them, the attached file
Arrive(r, op, kind, id, index, hasBody, file, mime) ==
    LET body == IF hasBody THEN [id |-> id, index |-> index]
                ELSE [id |-> Undefined, index |-> Undefined]
        \* the retrieve routes read id and index from req.params, the other
        \* routes from req.body
        q0 == IF op = "retrieve"
              THEN NewRequest(op, kind, id, index, body, file, mime)
              ELSE NewRequest(op, kind, body.id, body.index, body, file, mime)
        mine == DeleteTarget(Table(kind), kind, q0.id, q0.index)
        q1 == [q0 EXCEPT
                 !.alone = \A s \in Slots \ {r} : ~Active(req[s]),
                 !.after = op = "upload" /\ hasBody
                             /\ last[Ident(q0)] = "created",
                 !.had = mine # {},
                 !.old = IF mine = {} THEN <<>>
                         ELSE (CHOOSE row \in mine : TRUE).image]
    IN  /\ req[r].pc = "idle"
        /\ issued < MaxIssued
        /\ req' = [s \in Slots |->
                     IF s = r THEN Admit(q1) ELSE Overlapped(req[s], q0)]
        /\ last' = [x \in Identities |->
                     IF x[1] = kind /\
                        \/ op = "upload" /\ last[x] = "deleted"
                        \/ op = "delete" /\ last[x] = "created"
                     THEN "none" ELSE last[x]]
        /\ issued' = issued + 1
        /\ UNCHANGED <<profile, listing, bucket, faults, derivation, dispatch>>

Start(r) ==
    /\ FirstIdle(r)
    /\ issued < MaxIssued
    /\ \E op \in Ops, kind \in Kinds, file \in Contents \cup {NoFile, Corrupt},
          mime \in FileTypes, hasBody \in BOOLEAN :
       \E id \in (IF kind = "profile" THEN UserIds ELSE ListingIds),
          index \in (IF kind = "profile" THEN {NoIndex} ELSE Indexes) :
          /\ (op \in {"delete", "retrieve"}) => file = NoFile
          /\ (file = NoFile) => mime \in MimeTypes
          /\ (op # "retrieve") => hasBody
          /\ Arrive(r, op, kind, id, index, hasBody, file, mime)

\* parseInt(id) / parseInt(index) of a missing field is NaN, and prisma
\* rejects a query that carries it
Unparsed(q) == q.id = Undefined \/ (q.kind = "listing" /\ q.index = Undefined)

\* a store call fails by an outage only while the fault budget lasts
MayFail == faults < MaxFaults
Charge(failed) == faults' = IF failed THEN faults + 1 ELSE faults

SetTable(kind, rows) ==
    IF kind = "profile" THEN profile' = rows /\ UNCHANGED listing
    ELSE listing' = rows /\ UNCHANGED profile

\* an upload that goes on to the insert whatever the lookup gave
ExistsCheckSkipped(kind, tag) == FALSE

\* upload: `profileCheck !== null` (profile) and `listingCheck != null`
\* (listing) on the result of the lookup, undefined when the lookup failed
ExistsCheck(kind, tag) ==
    IF kind = "profile" THEN tag # "null" ELSE tag = "row"

\* a handler that takes any lookup result for a row
RowFoundAlways(res) == TRUE

\* `if (profile)`, `if (listing)`, `if (oldKey)`: the lookup gave a row, not
\* null and not the undefined of a failed lookup
RowFound(res) == res.tag = "row"

\* the handler after its lookup has settled with result res
AfterFind(q, res) ==
    LET q1 == Called([q EXCEPT !.found = res], "find",
                     IF res.tag # "undefined" THEN "ok"
                     ELSE IF Unparsed(q) THEN "invalid" ELSE "outage", <<>>)
        q2 == IF res.tag = "undefined"
              THEN SendThen(q1, 500, MsgCheckError(q), <<>>, q.pc)
              ELSE q1
    IN  CASE q.op = "upload" ->
                IF ExistsCheck(q.kind, res.tag)
                THEN SendThen(q2, 400, MsgExists(q.kind), <<>>, "done")
                ELSE [q2 EXCEPT !.pc = "insert"]
          [] q.op = "update" ->
                IF RowFound(res) THEN [q2 EXCEPT !.pc = "update"]
                ELSE SendThen(q2, 500, MsgAbsent(q), <<>>, "done")
          [] q.op = "delete" ->
                IF RowFound(res) THEN [q2 EXCEPT !.pc = "remove"]
                ELSE SendThen(q2, 500, MsgAbsent(q), <<>>, "done")
          [] OTHER ->
                IF RowFound(res)
                THEN SendThen(q2, 200, "", ImageUrl(res.image), "done")
                ELSE SendThen(q2, 500, MsgAbsent(q), <<>>, "done")

\* prisma.<kind>.findUnique / findFirst and the code up to the next await
Find(r) ==
    LET q == req[r]
        rows == Lookup(Table(q.kind), q.op, q.kind, q.id, q.index)
    IN  /\ q.pc = "find"
        /\ \E failed \in BOOLEAN :
              /\ failed => (MayFail /\ ~Unparsed(q))
              /\ Charge(failed)
              /\ LET res == IF failed \/ Unparsed(q)
                            THEN [tag |-> "undefined", image |-> <<>>]
                            ELSE IF rows = {} THEN [tag |-> "null", image |-> <<>>]
                            ELSE [tag |-> "row", image |-> (CHOOSE p \in rows : TRUE).image]
                     qa == [q EXCEPT !.after =
                              IF q.op = "retrieve" THEN last[Ident(q)] = "deleted" ELSE @]
                 IN  req' = [req EXCEPT ![r] = AfterFind(qa, res)]
        /\ UNCHANGED <<profile, listing, bucket, last, issued, derivation, dispatch>>

\* prisma.<kind>.create and the code up to the next await
Insert(r) ==
    LET q == req[r]
        free == PrimaryKeyFree(Table(q.kind), q.kind, q.id)
    IN  /\ q.pc = "insert"
        /\ \E outage \in BOOLEAN :
              /\ outage => (MayFail /\ ~Unparsed(q))
              /\ Charge(outage)
              /\ IF free /\ ~outage /\ ~Unparsed(q)
                 THEN /\ SetTable(q.kind, Table(q.kind)
                                    \cup {NewRow(q.kind, q.id, q.index, q.key)})
                      /\ req' = [req EXCEPT ![r] =
                                  [Called(q, "insert", "ok", q.key) EXCEPT !.pc = "put"]]
                 ELSE /\ UNCHANGED <<profile, listing>>
                      /\ req' = [req EXCEPT ![r] =
                                  SendThen(Called(q, "insert",
                                                  IF outage THEN "outage"
                                                  ELSE IF Unparsed(q) THEN "invalid"
                                                  ELSE "duplicate",
                                                  q.key), 500,
                                           "Database error while creating profile.",
                                           <<>>, "put")]
        /\ UNCHANGED <<bucket, last, issued, derivation, dispatch>>

\* prisma.<kind>.update and the code up to the next await
Update(r) ==
    LET q == req[r]
        target == UpdateTarget(Table(q.kind), q.kind, q.id)
    IN  /\ q.pc = "update"
        /\ \E outage \in BOOLEAN :
              /\ outage => (MayFail /\ ~Unparsed(q))
              /\ Charge(outage)
              /\ IF target # {} /\ ~outage /\ ~Unparsed(q)
                 THEN /\ SetTable(q.kind, (Table(q.kind) \ target)
                                    \cup {NewRow(q.kind, q.id, q.index, q.key)})
                      /\ req' = [req EXCEPT ![r] =
                                  [Called(q, "update", "ok", q.key) EXCEPT !.pc = "put"]]
                 ELSE /\ UNCHANGED <<profile, listing>>
                      /\ req' = [req EXCEPT ![r] =
                                  SendThen(Called(q, "update",
                                                  IF outage THEN "outage"
                                                  ELSE IF Unparsed(q) THEN "invalid"
                                                  ELSE "absent",
                                                  q.key), 500,
                                           MsgUpdateError(q.kind), <<>>, "put")]
        /\ UNCHANGED <<bucket, last, issued, derivation, dispatch>>

\* prisma.profile.delete throws when no row matches; prisma.listing.deleteMany
\* deletes what matches, possibly nothing
DeleteRejected(kind, target) == kind = "profile" /\ target = {}

\* prisma.profile.delete / prisma.listing.deleteMany and the code up to the
\* next await
Remove(r) ==
    LET q == req[r]
        target == DeleteTarget(Table(q.kind), q.kind, q.id, q.index)
    IN  /\ q.pc = "remove"
        /\ \E outage \in BOOLEAN :
              /\ outage => MayFail
              /\ Charge(outage)
              /\ IF ~DeleteRejected(q.kind, target) /\ ~outage
                 THEN /\ SetTable(q.kind, Table(q.kind) \ target)
                      /\ req' = [req EXCEPT ![r] =
                                  [Called(q, "remove", "ok", <<>>) EXCEPT !.pc = "del"]]
                 ELSE /\ UNCHANGED <<profile, listing>>
                      /\ req' = [req EXCEPT ![r] =
                                  SendThen(Called(q, "remove",
                                                  IF outage THEN "outage" ELSE "absent",
                                                  <<>>), 500,
                                           MsgDeleteError(q.kind), <<>>, "del")]
        /\ UNCHANGED <<bucket, last, issued, derivation, dispatch>>

\* outcomes of s3Client.send: it resolves, it rejects with an Error, or it
\* rejects with a value that is not an Error
S3Outcomes == {"ok", "error", "other"}

\* an uploadFile / deleteFile that swallows every rejection
RethrownNever(outcome) == FALSE

\* uploadFile / deleteFile: `if (error instanceof Error) throw error`, any
\* other rejection is dropped and the function returns normally
Rethrown(outcome) == outcome = "error"

\* the ghost record of the last successful create / delete of an identity
Noted(q, q2) ==
    IF q2.resp.status = 200 /\ ~Sent(q) /\ q.op = "upload" /\ q.alone
    THEN [last EXCEPT ![Ident(q)] = "created"]
    ELSE IF q2.resp.status = 200 /\ ~Sent(q) /\ q.op = "delete" /\ q.alone
    THEN [last EXCEPT ![Ident(q)] = "deleted"]
    ELSE last

\* a handler that writes the record after it has uploaded the blob
AfterPutWritesRecord(q) ==
    CASE q.op = "upload" ->
            SendThen(q, 200, "Image upload complete.", ImageUrl(q.key), "done")
      [] q.kind = "profile" -> [q EXCEPT !.pc = "update"]
      [] OTHER ->
            SendThen(q, 200, "Listing image updated.", ImageUrl(q.key), "done")

\* the handler after uploadFile has returned normally
AfterPut(q) ==
    CASE q.op = "upload" ->
            SendThen(q, 200, "Image upload complete.", ImageUrl(q.key), "done")
      [] q.kind = "profile" -> [q EXCEPT !.pc = "del"]
      [] OTHER ->
            SendThen(q, 200, "Listing image updated.", ImageUrl(q.key), "done")

\* uploadFile(fileBuffer, key, file.mimetype) and the code up to the next await
Put(r) ==
    LET q == req[r]
    IN  /\ q.pc = "put"
        /\ \E outcome \in S3Outcomes :
              /\ outcome # "ok" => MayFail
              /\ Charge(outcome # "ok")
              /\ bucket' = IF outcome = "ok"
                           THEN PutObject(bucket, q.key, q.fileBuffer, q.mime)
                           ELSE bucket
              /\ LET q1 == Called(q, "put", outcome, q.key)
                     q2 == IF Rethrown(outcome) THEN Caught(q1) ELSE AfterPut(q1)
                 IN  /\ req' = [req EXCEPT ![r] = q2]
                     /\ last' = Noted(q, q2)
        /\ UNCHANGED <<profile, listing, issued, derivation, dispatch>>

\* the handler after deleteFile has returned normally
AfterDel(q) ==
    IF q.op = "update"
    THEN SendThen(q, 200, "Listing image updated.", ImageUrl(q.key), "done")
    ELSE SendThen(q, 200, MsgDeleted(q.kind), <<>>, "done")

\* deleteFile(oldKey.image) / deleteFile(profile.image) and the rest of the
\* handler
Del(r) ==
    LET q == req[r]
    IN  /\ q.pc = "del"
        /\ \E outcome \in S3Outcomes :
              /\ outcome # "ok" => MayFail
              /\ Charge(outcome # "ok")
              /\ bucket' = IF outcome = "ok"
                           THEN DeleteObject(bucket, q.found.image)
                           ELSE bucket
              /\ LET q1 == Called(q, "del", outcome, q.found.image)
                     q2 == IF Rethrown(outcome) THEN Caught(q1) ELSE AfterDel(q1)
                 IN  /\ req' = [req EXCEPT ![r] = q2]
                     /\ last' = Noted(q, q2)
        /\ UNCHANGED <<profile, listing, issued, derivation, dispatch>>

\* the response has gone out and the slot serves the next request
Finish(r) ==
    /\ req[r].pc = "done"
    /\ req' = [req EXCEPT ![r] = Idle]
    /\ UNCHANGED <<profile, listing, bucket, last, issued, faults, derivation, dispatch>>

Next ==
    \E r \in Slots :
        \/ Start(r)
        \/ Find(r)
        \/ Insert(r)
        \/ Update(r)
        \/ Remove(r)
        \/ Put(r)
        \/ Del(r)
        \/ Finish(r)

Spec == Init /\ [][Next]_vars

\* ------------------------------------- requests whose body has no fields
\* a POST whose body carries neither id nor index
StartNoBody(r) ==
    /\ FirstIdle(r)
    /\ issued < MaxIssued
    /\ \E op \in Ops \ {"retrieve"}, kind \in Kinds, file \in Contents \cup {NoFile} :
          /\ (op = "delete") => file = NoFile
          /\ Arrive(r, op, kind, Undefined, Undefined, FALSE, file, Png)

NoBodyNext ==
    \E r \in Slots :
        \/ StartNoBody(r)
        \/ Find(r)
        \/ Insert(r)
        \/ Update(r)
        \/ Put(r)
        \/ Finish(r)

SpecNoBody == Init /\ [][NoBodyNext]_vars

\* ------------------------------- requests on one identity, all bytes new
\* an upload, update or delete of profile 1 or of listing (1, 1); the file of
\* each upload and update is a byte string no request has carried before
StartFresh(r) ==
    /\ FirstIdle(r)
    /\ issued < MaxIssued
    /\ \E op \in Ops \ {"retrieve"}, kind \in Kinds :
          Arrive(r, op, kind, 1, IF kind = "profile" THEN NoIndex ELSE 1, TRUE,
                 IF op = "delete" THEN NoFile ELSE issued + 1, Png)

FreshNext ==
    \E r \in Slots :
        \/ StartFresh(r)
        \/ Find(r)
        \/ Insert(r)
        \/ Update(r)
        \/ Remove(r)
        \/ Put(r)
        \/ Del(r)
        \/ Finish(r)

SpecFresh == Init /\ [][FreshNext]_vars

\* --------------------------------- the process and unhandled rejections
\* a request on a profile; a rejection nothing handles is dealt with by the
\* runtime before the next request is read
StartProfile(r) ==
    /\ FirstIdle(r)
    /\ issued < MaxIssued
    /\ \A s \in Slots : ~req[s].crashed
    /\ \E op \in Ops, id \in UserIds, file \in Contents \cup {NoFile} :
          /\ (op \in {"delete", "retrieve"}) => file = NoFile
          /\ Arrive(r, op, "profile", id, NoIndex, TRUE, file, Png)

\* the catch block of request r has thrown (its res.status(500).json() ran
\* on a response already sent): the promise of the async handler is rejected
\* and nothing handles the rejection, so the runtime ends the process. The
\* requests in flight get no further step and no response ("lost"); no slot
\* serves again ("down").
Exit(r) ==
    /\ req[r].pc = "done"
    /\ req[r].crashed
    /\ req' = [s \in Slots |->
                 [req[s] EXCEPT !.pc = IF Active(req[s]) THEN "lost" ELSE "down"]]
    /\ UNCHANGED <<profile, listing, bucket, last, issued, faults, derivation, dispatch>>

\* after an unhandled rejection the process either goes on (Finish) or ends
\* (Exit), as the runtime decides
ExitNext ==
    \E r \in Slots :
        \/ StartProfile(r)
        \/ Find(r)
        \/ Insert(r)
        \/ Update(r)
        \/ Remove(r)
        \/ Put(r)
        \/ Del(r)
        \/ Finish(r)
        \/ Exit(r)

SpecExit == Init /\ [][ExitNext]_vars

\* ------------------------------------------- generateImageKey by itself
\* hex digests: HashLen lowercase hex characters, a sample with every first
\* character and a spread of second characters
HashOf(a, b) == [i \in 1..HashLen |-> Hex[((a * i + b) % 16) + 1]]
KeyHashes == {HashOf(a, b) : a \in 0..MaxStride, b \in 0..15}
KeyMimes == {Png, Jpeg, SvgXml, ImageSlash, ImageBare, TextPlain}

KeyInit ==
    /\ profile = {}
    /\ listing = {}
    /\ bucket = {}
    /\ req = [s \in Slots |-> Idle]
    /\ last = [x \in Identities |-> "none"]
    /\ issued = 0
    /\ faults = 0
    /\ dispatch = NoDispatch
    /\ derivation \in
          {[state |-> "called", type |-> t, imageHash |-> h, mimetype |-> m,
            key |-> <<>>, previous |-> <<>>, before |-> <<>>] :
              t \in Kinds, h \in KeyHashes, m \in KeyMimes}

\* generateImageKey(type, imageHash, mimetype) runs and returns
Derive ==
    /\ derivation.state = "called"
    /\ derivation' =
          [derivation EXCEPT
              !.state = "returned",
              !.key = generateImageKey(derivation.type, derivation.imageHash,
                                       derivation.mimetype)]
    /\ UNCHANGED <<profile, listing, bucket, req, last, issued, faults, dispatch>>

\* the same arguments are passed once more; the key returned before is kept
\* for comparison
Recall ==
    /\ derivation.state = "returned"
    /\ derivation' =
          [derivation EXCEPT
              !.state = "called", !.key = <<>>, !.previous = derivation.key,
              !.before = <<derivation.type, derivation.imageHash,
                           derivation.mimetype>>]
    /\ UNCHANGED <<profile, listing, bucket, req, last, issued, faults, dispatch>>

KeyNext == Derive \/ Recall

SpecKey == KeyInit /\ [][KeyNext]_vars

\* --------------------------------- generateImageKey on two sets of arguments
\* a digest that differs from h in its last character only
Twist(h) ==
    [i \in 1..HashLen |->
        IF i < HashLen THEN h[i] ELSE IF h[i] = "0" THEN "1" ELSE "0"]

\* hex digests of which some share the first character, some the first two
\* and some all but the last
PairHashes ==
    LET base == {HashOf(a, b) : a \in 0..1, b \in 0..MaxOffset}
    IN  base \cup {Twist(h) : h \in base}

\* media types image/<subtype>
PairMimes == {Png, Jpeg, SvgXml}

PairInit ==
    /\ profile = {}
    /\ listing = {}
    /\ bucket = {}
    /\ req = [s \in Slots |-> Idle]
    /\ last = [x \in Identities |-> "none"]
    /\ issued = 0
    /\ faults = 0
    /\ dispatch = NoDispatch
    /\ derivation \in
          {[state |-> "called", type |-> t, imageHash |-> h, mimetype |-> m,
            key |-> <<>>, previous |-> <<>>, before |-> <<>>] :
              t \in Kinds, h \in PairHashes, m \in PairMimes}

\* generateImageKey is called with arguments of another request; the
\* arguments and the key of the call before are kept for comparison
Another ==
    /\ derivation.state = "returned"
    /\ derivation.before = <<>>
    /\ \E t \in Kinds, h \in PairHashes, m \in PairMimes :
          derivation' =
              [state |-> "called", type |-> t, imageHash |-> h, mimetype |-> m,
               key |-> <<>>, previous |-> derivation.key,
               before |-> <<derivation.type, derivation.imageHash,
                            derivation.mimetype>>]
    /\ UNCHANGED <<profile, listing, bucket, req, last, issued, faults, dispatch>>

PairNext == Derive \/ Another

SpecKeyPair == PairInit /\ [][PairNext]_vars

\* ------------------------------------------------- middleware and limiter
LimitMax == 100
MaxOver == 1

\* the versions of Server.ts: all routes in modules under api/routes; the
\* upload, update and retrieve routes in Server.ts itself; the upload route
\* in Server.ts itself
Servers == {"modules", "inline", "upload inline"}

\* what app.use / app.post / app.get have registered, in the order of the
\* calls: express.json, cors, the error middleware, the rate limiter and the
\* routes
Stack(server) ==
    CASE server = "modules" ->
            <<"json", "cors", "error", "limiter",
              "upload", "update", "retrieve", "delete">>
      [] server = "inline" ->
            <<"json", "cors", "upload", "update", "retrieve",
              "error", "limiter", "delete">>
      [] OTHER ->
            <<"json", "cors", "upload", "error", "limiter",
              "update", "retrieve", "delete">>

DispatchInit ==
    /\ profile = {}
    /\ listing = {}
    /\ bucket = {}
    /\ req = [s \in Slots |-> Idle]
    /\ last = [x \in Identities |-> "none"]
    /\ issued = 0
    /\ faults = 0
    /\ derivation = NoDerivation
    /\ dispatch \in {[NoDispatch EXCEPT !.server = v] : v \in Servers}

\* a request for one of the routes arrives from the client address, the
\* one before it having been handled or turned down
Receive ==
    /\ dispatch.at = 0
    /\ dispatch.hits < LimitMax + MaxOver
    /\ \E route \in Ops :
          dispatch' = [dispatch EXCEPT !.route = route, !.at = 1,
                                       !.passed = FALSE, !.result = ""]
    /\ UNCHANGED <<profile, listing, bucket, req, last, issued, faults, derivation>>

\* the request is handed to the next layer of the stack: express.json and
\* cors call next(); the error middleware is passed over while there is no
\* error; the limiter counts the request and answers 429 above max, else
\* calls next(); a route whose path matches runs its handler, which never
\* calls next(); any other route is passed over
Layer ==
    LET d == dispatch
        layer == Stack(d.server)[d.at]
    IN  /\ d.at \in 1..Len(Stack(d.server))
        /\ dispatch' =
              CASE layer = "limiter" ->
                      IF d.hits + 1 > LimitMax
                      THEN [d EXCEPT !.hits = @ + 1, !.at = 0, !.result = "429"]
                      ELSE [d EXCEPT !.hits = @ + 1, !.at = @ + 1, !.passed = TRUE]
                [] layer = d.route -> [d EXCEPT !.at = 0, !.result = "handled"]
                [] OTHER -> [d EXCEPT !.at = @ + 1]
        /\ UNCHANGED <<profile, listing, bucket, req, last, issued, faults, derivation>>

\* windowMs has passed: the limiter's count of the address starts again
Expire ==
    /\ dispatch.hits > 0
    /\ dispatch' = [dispatch EXCEPT !.hits = 0]
    /\ UNCHANGED <<profile, listing, bucket, req, last, issued, faults, derivation>>

DispatchNext == Receive \/ Layer \/ Expire

SpecDispatch == DispatchInit /\ [][DispatchNext]_vars

\* =================================================================== claims
Made(q, call, results) ==
    \E i \in 1..Len(q.calls) : q.calls[i].call = call /\ q.calls[i].result \in results
Results == {"ok", "outage", "duplicate", "absent", "invalid", "error", "other"}
Failures == Results \ {"ok"}
MutatingCalls == {"insert", "update", "remove", "put", "del"}
Mutated(q) == \E c \in MutatingCalls : Made(q, c, {"ok"})
Response(st, msg, url) == [status |-> st, message |-> msg, imageUrl |-> url]
Done(q, op) == q.pc = "done" /\ q.op = op

\* C1 No double create: an upload issued after an upload of the same identity
\* that ran with no other request in flight was answered 200, with no delete
\* of the kind issued since, makes no
\* successful insert, update, delete, put or blob delete; when its lookup is
\* answered by the store it is answered 400 "<Kind> already exists." and makes
\* no store call but that lookup.
C1_NoDoubleCreate ==
    \A r \in Slots :
        LET q == req[r]
        IN  (Done(q, "upload") /\ q.after /\ Len(q.calls) >= 1) =>
                /\ ~Mutated(q)
                /\ q.calls[1].result = "ok" =>
                      /\ q.resp = Response(400, MsgExists(q.kind), <<>>)
                      /\ Len(q.calls) = 1

C1_Witness ==
    \E r \in Slots :
        /\ Done(req[r], "upload") /\ req[r].after
        /\ req[r].resp = Response(400, MsgExists(req[r].kind), <<>>)

\* C2 At most one record per identity: the profile table never holds two rows
\* with one userId and the listing table never two rows with one
\* (listingId, index), whatever create, replace and delete requests interleave.
C2_AtMostOneRecord ==
    /\ \A p1 \in profile, p2 \in profile : p1.userId = p2.userId => p1 = p2
    /\ \A l1 \in listing, l2 \in listing :
          (l1.listingId = l2.listingId /\ l1.index = l2.index) => l1 = l2

\* two uploads of one identity have both passed the existence check; one has
\* inserted its row and the other was turned down by the primary key
C2_Witness ==
    \E r1 \in Slots, r2 \in Slots :
        /\ r1 # r2
        /\ req[r1].op = "upload" /\ req[r2].op = "upload"
        /\ Ident(req[r1]) = Ident(req[r2])
        /\ req[r1].found.tag = "null" /\ req[r2].found.tag = "null"
        /\ Made(req[r1], "insert", {"ok"})
        /\ Made(req[r2], "insert", {"duplicate"})

\* C3 Replace preserves liveness: with no store call failed so far, when an
\* update that ran with no other request in flight has answered 200, the
\* lookup of retrieve on its identity gives a row with the new key and the
\* bucket holds an object at the new key, whatever the uploaded content.
C3_ReplacePreservesLiveness ==
    \A r \in Slots :
        LET q == req[r]
        IN  (Done(q, "update") /\ q.resp.status = 200 /\ q.alone /\ faults = 0) =>
                /\ \E row \in Lookup(Table(q.kind), "retrieve", q.kind, q.id, q.index) :
                      row.image = q.key
                /\ BlobAt(bucket, q.key)

\* C4 Delete clears lookup: once a delete that ran with no other request in
\* flight has answered 200, and until an upload of the kind is issued, no row
\* is found for its identity, and a retrieve of that identity whose lookup is
\* answered by the store is answered 500 "Failed to retrieve ... from
\* database.", never 200.
C4_DeleteClearsLookup ==
    /\ \A x \in Identities :
          last[x] = "deleted" => Lookup(Table(x[1]), "retrieve", x[1], x[2], x[3]) = {}
    /\ \A r \in Slots :
          LET q == req[r]
          IN  (Done(q, "retrieve") /\ q.after) =>
                  /\ q.resp.status # 200
                  /\ Made(q, "find", {"ok"}) =>
                        q.resp = Response(500, MsgAbsent(q), <<>>)

C4_Witness ==
    \E r \in Slots :
        /\ Done(req[r], "retrieve") /\ req[r].after
        /\ req[r].resp = Response(500, MsgAbsent(req[r]), <<>>)

\* C5 Insert failure skips the upload: a create whose record insert failed
\* makes no put to the bucket and is answered with a 500 store error.
C5_InsertFailureSkipsUpload ==
    \A r \in Slots :
        LET q == req[r]
        IN  (q.op = "upload" /\ Made(q, "insert", Failures)) =>
                /\ ~Made(q, "put", Results)
                /\ q.pc = "done" => q.resp.status = 500

\* C6 The create that loses the race is told AlreadyExists: an upload whose
\* lookup found no row and whose insert the primary key then rejected is
\* answered 400 "<Kind> already exists.", as a sequential duplicate create is.
C6_LostRaceIsAlreadyExists ==
    \A r \in Slots :
        LET q == req[r]
        IN  (Done(q, "upload") /\ Made(q, "find", {"ok"})
                /\ Made(q, "insert", {"duplicate"})) =>
                q.resp = Response(400, MsgExists(q.kind), <<>>)

\* C7 Record delete failure leaves the blob alone: a delete whose record
\* delete failed sends no delete to the bucket and is answered with a 500
\* store error.
C7_DeleteFailureSkipsBlob ==
    \A r \in Slots :
        LET q == req[r]
        IN  (q.op = "delete" /\ Made(q, "remove", Failures)) =>
                /\ ~Made(q, "del", Results)
                /\ q.pc = "done" => q.resp.status = 500

\* C8 Blob cleanup of delete is best effort: a delete that removed the record
\* and whose blob delete failed is answered 200.
C8_BlobDeleteFailureTolerated ==
    \A r \in Slots :
        LET q == req[r]
        IN  (Done(q, "delete") /\ Made(q, "remove", {"ok"})
                /\ Made(q, "del", Failures)) =>
                q.resp = Response(200, MsgDeleted(q.kind), <<>>)

\* C9 Old-blob cleanup of replace is best effort: an update whose record
\* update and upload succeeded and whose delete of the old blob failed is
\* answered 200 with the URL of the new key.
C9_OldBlobDeleteFailureTolerated ==
    \A r \in Slots :
        LET q == req[r]
        IN  (Done(q, "update") /\ Made(q, "update", {"ok"})
                /\ Made(q, "put", {"ok"}) /\ Made(q, "del", Failures)) =>
                q.resp = Response(200, "Listing image updated.", ImageUrl(q.key))

\* C10 Replace of an absent identity: an update of an identity that had no
\* record, run with no other request in flight, is not answered 200 and makes
\* no successful insert, update, delete, put or blob delete; with no outage
\* it is answered with the not-found failure.
C10_ReplaceAbsentNoMutation ==
    \A r \in Slots :
        LET q == req[r]
        IN  (Done(q, "update") /\ ~q.had /\ q.alone /\ Len(q.calls) >= 1) =>
                /\ ~Mutated(q)
                /\ q.resp.status # 200
                /\ (\A c \in MutatingCalls \cup {"find"} : ~Made(q, c, {"outage", "error", "other"}))
                      => q.resp = Response(500, MsgAbsent(q), <<>>)

\* C11 Delete of an absent identity: a delete whose lookup was answered with
\* no row is answered 500 "Failed to delete ... from database." and makes no
\* store call but that lookup: no record delete, no blob delete.
C11_DeleteAbsentOnlyLookup ==
    \A r \in Slots :
        LET q == req[r]
        IN  (q.op = "delete" /\ q.found.tag = "null") =>
                /\ Len(q.calls) = 1
                /\ q.calls[1].call = "find"
                /\ q.pc = "done"
                /\ q.resp = Response(500, MsgAbsent(q), <<>>)

C11_Witness ==
    \E r \in Slots :
        /\ Done(req[r], "delete") /\ req[r].found.tag = "null"
        /\ ~req[r].had
        /\ req[r].resp = Response(500, MsgAbsent(req[r]), <<>>)

RecordsOf(kind, id, index) ==
    IF kind = "profile" THEN {p \in profile : p.userId = id}
    ELSE {l \in listing : l.listingId = id /\ l.index = index}

C14_CreateThenLocate ==
    \A r \in Slots :
        LET q == req[r]
        IN  (Done(q, "retrieve") /\ q.alone /\ issued = 2 /\ faults = 0
                /\ last[Ident(q)] = "created") =>
                /\ q.resp.status = 200
                /\ \E row \in RecordsOf(q.kind, q.id, q.index) :
                      q.resp.imageUrl = ImageUrl(row.image)

\* C15 Success means every required step succeeded: a request answered 200
\* has, for an upload, inserted its record and put its blob; for an update,
\* updated the record and put the blob; for a delete, deleted the record.
C15_SuccessMeansAllSteps ==
    \A r \in Slots :
        LET q == req[r]
        IN  (q.pc = "done" /\ q.resp.status = 200) =>
                /\ q.op = "upload" =>
                      Made(q, "insert", {"ok"}) /\ Made(q, "put", {"ok"})
                /\ q.op = "update" =>
                      Made(q, "update", {"ok"}) /\ Made(q, "put", {"ok"})
                /\ q.op = "delete" => Made(q, "remove", {"ok"})

\* C16 A failed record update aborts the replace: an update of an identity
\* that had a record, run with no other request in flight, whose prisma update
\* was failed by the store, sends no put and no delete to the bucket, and is
\* answered with status 500.
C16_UpdateFailureAborts ==
    \A r \in Slots :
        LET q == req[r]
        IN  (q.op = "update" /\ q.had /\ q.alone
                /\ Made(q, "update", {"outage"})) =>
                /\ ~Made(q, "put", Results)
                /\ ~Made(q, "del", Results)
                /\ q.pc = "done" => q.resp.status = 500

\* C17 A failed lookup short-circuits the request: an upload, update or
\* delete, of either kind, whose initial lookup was failed by the store makes
\* no further store call: no insert, update or record delete, no put and no
\* blob delete.
C17_LookupFailureShortCircuits ==
    \A r \in Slots :
        LET q == req[r]
        IN  (q.op \in {"upload", "update", "delete"}
                /\ Made(q, "find", {"outage"})) =>
                Len(q.calls) = 1

\* C18 Listing identity is (listingId, index): with no store call failed, an
\* upload of a listing image that reached its lookup, run with no other
\* request in flight, for a pair (listingId, index) that had no record, is
\* not turned down as already existing: it is answered 200 and its record is
\* in the table, next to the records of the listing's other indexes.
C18_ListingIdentityIsComposite ==
    \A r \in Slots :
        LET q == req[r]
        IN  (Done(q, "upload") /\ q.kind = "listing" /\ q.alone /\ faults = 0
                /\ Len(q.calls) >= 1 /\ ~q.had) =>
                /\ q.resp.status = 200
                /\ ListingRow(q.id, q.index, q.key) \in listing

\* C19 A replace deletes the old blob once: an update answered 200, run with
\* no other request in flight, of an identity whose record held a key other
\* than the new one, has sent exactly one delete to the bucket, for the key
\* the record held before the update. This holds for both kinds.
C19_ReplaceDeletesOldBlobOnce ==
    \A r \in Slots :
        LET q == req[r]
            dels == {i \in 1..Len(q.calls) : q.calls[i].call = "del"}
        IN  (Done(q, "update") /\ q.resp.status = 200 /\ q.alone
                /\ q.old # <<>> /\ q.old # q.key) =>
                /\ Cardinality(dels) = 1
                /\ \A i \in dels : q.calls[i].key = q.old

\* C20 Idempotent addressing: the key a request derives is a function of the
\* kind, the content hash and the media type alone. Two requests in flight
\* with the same kind, the same content and the same media type hold the same
\* key, whatever their identities (userId, listingId, index), the moments
\* they were received and the contents of the tables and the bucket.
C20_KeyIsFunctionOfKindHashType ==
    \A r1 \in Slots, r2 \in Slots :
        LET q1 == req[r1]
            q2 == req[r2]
        IN  (r1 < r2 /\ q1.key # <<>> /\ q2.key # <<>> /\ q1.kind = q2.kind
                /\ q1.mime = q2.mime /\ Sha256(q1.file) = Sha256(q2.file)) =>
                q1.key = q2.key

\* two requests of different identities with the same content hold the same
\* key, the second derived when the first had changed both stores
C20_Witness ==
    \E r1 \in Slots, r2 \in Slots :
        LET q1 == req[r1]
            q2 == req[r2]
        IN  /\ Done(q1, "upload") /\ q1.resp.status = 200
            /\ q2.op = "upload" /\ q2.alone
            /\ q1.key # <<>> /\ q1.key = q2.key
            /\ Ident(q1) # Ident(q2)
            /\ BlobAt(bucket, q1.key)

\* the text after "image/" of a media type image/<subtype>, <<>> for any other
\* media type
Subtype(mimetype) ==
    IF StartsWith(mimetype, ImageSlash)
           /\ \A i \in (Len(ImageSlash) + 1)..Len(mimetype) : mimetype[i] # "/"
    THEN SubSeq(mimetype, Len(ImageSlash) + 1, Len(mimetype))
    ELSE <<>>

\* C21 Key format: for either kind, every hash of HashLen hex characters and
\* every media type image/<subtype>, the key generateImageKey returns is made
\* of the path segments assets, img, <kind>, the first hash character, the
\* first two hash characters and <hash>.<subtype>, joined by "/".
C21_KeyFormat ==
    LET d == derivation
        h == d.imageHash
        k == d.key
    IN  (d.state = "returned" /\ Subtype(d.mimetype) # <<>>) =>
            /\ {i \in 1..Len(k) : k[i] = "/"} = {7, 11, 19, 21, 24}
            /\ SubSeq(k, 1, 6) = <<"a","s","s","e","t","s">>
            /\ SubSeq(k, 8, 10) = <<"i","m","g">>
            /\ SubSeq(k, 12, 18) =
                  (IF d.type = "profile" THEN ProfileFolder ELSE ListingFolder)
            /\ SubSeq(k, 20, 20) = <<h[1]>>
            /\ SubSeq(k, 22, 23) = <<h[1], h[2]>>
            /\ SubSeq(k, 25, Len(k)) = h \o <<".">> \o Subtype(d.mimetype)

C21_Witness ==
    /\ derivation.state = "returned"
    /\ derivation.type = "listing"
    /\ derivation.mimetype = SvgXml
    /\ derivation.imageHash[1] = "f" /\ derivation.imageHash[2] = "2"
    /\ Len(derivation.key) = 11 + 7 + 1 + 1 + 1 + 2 + 1 + HashLen + 1 + 7

\* C22 Listing JPEG: the key derived for a listing image of media type
\* image/jpeg lies under assets/img/listing/ and ends with the extension
\* ".jpg".
C22_ListingJpegIsJpg ==
    LET d == derivation
        k == d.key
    IN  (d.state = "returned" /\ d.type = "listing" /\ d.mimetype = Jpeg) =>
            /\ StartsWith(k, AssetsImg \o ListingFolder \o <<"/">>)
            /\ SubSeq(k, Len(k) - 3, Len(k)) = <<".","j","p","g">>

\* C23 Invalid media type: when the media type does not start with "image/"
\* or has nothing after "image/", generateImageKey signals an error and
\* returns no key.
C23_InvalidMediaTypeSignalled ==
    LET d == derivation
    IN  (d.state = "returned"
            /\ (~StartsWith(d.mimetype, ImageSlash) \/ d.mimetype = ImageSlash)) =>
            d.key = <<>>

\* C24 A file that is not an image fails before any store call: an upload or
\* update whose file has a media type that does not start with "image/" is
\* answered with an error status and makes no store call at all: no lookup,
\* insert or update, no put and no blob delete.
C24_NonImageFailsBeforeStores ==
    \A r \in Slots :
        LET q == req[r]
        IN  (q.op \in {"upload", "update"} /\ ~StartsWith(q.mime, ImageSlash)) =>
                /\ q.calls = <<>>
                /\ q.pc = "done"
                /\ q.resp.status >= 400

C24_Witness ==
    \E r \in Slots :
        /\ Done(req[r], "update") /\ req[r].kind = "listing"
        /\ req[r].mime = TextPlain
        /\ req[r].had
        /\ req[r].calls = <<>>
        /\ req[r].resp.status = 500

\* C25 NotFound is a client error: an update, delete or retrieve whose lookup
\* was answered with no row is answered with a 4xx status, not with the 5xx
\* status used for failures of the stores.
C25_NotFoundIsClientError ==
    \A r \in Slots :
        LET q == req[r]
        IN  (q.pc = "done" /\ q.op \in {"update", "delete", "retrieve"}
                /\ q.found.tag = "null") =>
                q.resp.status \in 400..499

\* the request carries every parameter its route requires: id, index for a
\* listing (in the URL path for retrieve, in the body otherwise) and, for
\* upload and update, the image file
Complete(q) ==
    /\ q.op # "retrieve" =>
          /\ q.body.id # Undefined
          /\ q.kind = "listing" => q.body.index # Undefined
    /\ q.op \in {"upload", "update"} => (q.file # NoFile \/ ~FileFilter(q.mime))

\* C26 Validation: a request that lacks a required parameter makes no store
\* call and is answered 400; a request that carries them all is never
\* answered with a 400 validation error.
C26_ValidationRejectsExactlyIncomplete ==
    \A r \in Slots :
        LET q == req[r]
        IN  q.op # "" =>
                /\ ~Complete(q) =>
                      /\ q.calls = <<>>
                      /\ q.pc = "done" => q.resp.status = 400
                /\ Complete(q) =>
                      q.resp.message \notin
                          {"Missing or invalid required parameters.",
                           "Missing image file."}

\* C27 Referential integrity at quiescence: with no store call failed so far
\* and no request in a slot, the key of every record in either table names
\* an object of the bucket, whatever uploads, updates and deletes of whatever
\* identities and contents came before.
C27_RecordsNameBlobsAtRest ==
    ((\A s \in Slots : req[s].pc = "idle") /\ faults = 0) =>
        \A row \in profile \cup listing : BlobAt(bucket, row.image)

\* C28 Races leave no dangling record: when the requests are uploads, updates
\* and deletes of one identity, each upload and update carrying bytes no
\* other request carries, and no store call was failed by the stores, then
\* once no request is running the key of every record names an object of
\* the bucket, however the requests interleaved.
C28_RacesLeaveNoDanglingRecord ==
    ((\A s \in Slots : ~Active(req[s])) /\ faults = 0) =>
        \A row \in profile \cup listing : BlobAt(bucket, row.image)

\* two updates of a stored profile have run at the same time: the record
\* names the blob of one of them and the blob of the other is an orphan
C28_Witness ==
    /\ faults = 0
    /\ issued = MaxIssued
    /\ \E r1 \in Slots, r2 \in Slots :
          /\ r1 # r2
          /\ Done(req[r1], "update") /\ Done(req[r2], "update")
          /\ req[r1].kind = "profile" /\ req[r2].kind = "profile"
          /\ Made(req[r1], "update", {"ok"}) /\ Made(req[r2], "update", {"ok"})
          /\ profile = {ProfileRow(1, req[r1].key)}
          /\ BlobAt(bucket, req[r1].key) /\ BlobAt(bucket, req[r2].key)

\* C29 One winner of a create race: when the only two requests so far are
\* uploads of one identity with different contents and both have returned,
\* at most one of them was answered 200, and if one was, the record of the
\* identity is the one with the key derived from that request's content.
C29_CreateRaceHasOneWinner ==
    \A r1 \in Slots, r2 \in Slots :
        LET q1 == req[r1]
            q2 == req[r2]
        IN  (r1 # r2 /\ issued = 2 /\ Done(q1, "upload") /\ Done(q2, "upload")
                /\ Ident(q1) = Ident(q2)
                /\ q1.key # <<>> /\ q2.key # <<>> /\ q1.key # q2.key) =>
                /\ ~(q1.resp.status = 200 /\ q2.resp.status = 200)
                /\ q1.resp.status = 200 =>
                      RecordsOf(q1.kind, q1.id, q1.index) =
                          {NewRow(q1.kind, q1.id, q1.index, q1.key)}

\* both uploads found no row; one inserted and was answered 200, the other
\* was turned down by the primary key
C29_Witness ==
    \E r1 \in Slots, r2 \in Slots :
        LET q1 == req[r1]
            q2 == req[r2]
        IN  /\ r1 # r2 /\ issued = 2
            /\ Done(q1, "upload") /\ Done(q2, "upload")
            /\ Ident(q1) = Ident(q2) /\ q1.key # q2.key
            /\ q1.found.tag = "null" /\ q2.found.tag = "null"
            /\ q1.resp.status = 200 /\ q2.resp.status = 500
            /\ Made(q2, "insert", {"duplicate"})
            /\ RecordsOf(q1.kind, q1.id, q1.index) =
                  {NewRow(q1.kind, q1.id, q1.index, q1.key)}

\* C30 Frame across identities: a step of an upload, update or delete of
\* identity X leaves the record of every other identity of the same kind as
\* it was (for listings, another index of the same listing is another
\* identity) and leaves the table of the other kind as it was.
C30_OtherIdentitiesUntouched ==
    [][\A r \in Slots :
          (req'[r] # req[r] /\ req'[r].op \in {"upload", "update", "delete"}) =>
              /\ \A y \in Identities :
                    (y[1] = req'[r].kind /\ y # Ident(req'[r])) =>
                        RecordsOf(y[1], y[2], y[3])' = RecordsOf(y[1], y[2], y[3])
              /\ req'[r].kind = "profile" => listing' = listing
              /\ req'[r].kind = "listing" => profile' = profile]_vars

\* C31 Single response: no request attempts a second res.status().json()
\* after its response has been sent, and a request that has returned has
\* sent exactly one response.
C31_SingleResponse ==
    \A r \in Slots :
        LET q == req[r]
        IN  /\ q.sends <= 1
            /\ (q.pc = "done" /\ q.calls # <<>>) => q.sends = 1

\* C32 Every request gets a response: a request that has entered its handler
\* is not left without a response, and a request that has returned was sent
\* a response, which carries a message when its status is not 200.
C32_EveryRequestAnswered ==
    \A r \in Slots :
        LET q == req[r]
        IN  /\ q.pc = "lost" => Sent(q)
            /\ q.pc \in {"done", "down"} /\ q.op # "" =>
                  /\ Sent(q)
                  /\ q.resp.status # 200 => q.resp.message # ""

\* position of a store call in the order of a replace
Rank(call) ==
    CASE call = "find" -> 1
      [] call = "update" -> 2
      [] call = "put" -> 3
      [] call = "del" -> 4
      [] OTHER -> 0

C34_BlobHashesToItsKey ==
    \A o \in bucket :
        \E kind \in Kinds : o.key = generateImageKey(kind, Sha256(o.body), o.type)

\* C35 Key derivation is injective on valid arguments: two calls whose
\* arguments (kind, hash of HashLen hex characters, media type
\* image/<subtype>) differ in any component return different keys.
C35_KeyInjective ==
    LET d == derivation
    IN  (d.state = "returned" /\ d.before # <<>>
            /\ d.before # <<d.type, d.imageHash, d.mimetype>>) =>
            d.key # d.previous

\* two calls that differ in the last character of the hash only
C35_Witness ==
    LET d == derivation
    IN  /\ d.state = "returned" /\ d.before # <<>>
        /\ d.before[1] = d.type /\ d.before[3] = d.mimetype
        /\ d.before[2] # d.imageHash
        /\ SubSeq(d.before[2], 1, HashLen - 1) = SubSeq(d.imageHash, 1, HashLen - 1)
        /\ d.key # d.previous
        /\ Len(d.key) = Len(d.previous)

\* C36 No automatic retry: the store calls a request has made are of
\* different sub-steps: the lookup, the insert, the update, the record
\* delete, the put and the blob delete are each made at most once, whether
\* they succeeded or failed.
C36_EachStepAtMostOnce ==
    \A r \in Slots :
        LET q == req[r]
        IN  \A i \in 1..Len(q.calls), j \in 1..Len(q.calls) :
                i # j => q.calls[i].call # q.calls[j].call

\* a request whose put failed with an Error has returned 500 after that one
\* attempt
C36_Witness ==
    \E r \in Slots :
        LET q == req[r]
        IN  /\ q.pc = "done"
            /\ Made(q, "put", {"error"})
            /\ q.calls[Len(q.calls)].call = "put"
            /\ q.resp = Response(500, "Internal server error", <<>>)
            /\ q.sends = 1
            /\ ~BlobAt(bucket, q.key)

\* C37 Rate limiting of all requests: a request whose route handler runs has
\* passed through the rate limiter first, whatever its route, so no handler
\* runs for a request the limiter has not counted.
C37_EveryRouteLimited ==
    dispatch.result = "handled" => dispatch.passed

====
